---- MODULE Spec2Model ----
(***************************************************************************)
(* Model of src/schedule.rs: a Schedule holding a list of cron::Schedule   *)
(* values, the merged next/previous occurrence queries, construction from  *)
(* text, serialization, and the two iterators over occurrence instants.    *)
(*                                                                         *)
(* Instants are whole numbers 0..MaxTime. An instant is a slot of a day:   *)
(* instant = day * SlotsPerDay + slot. A text is a sequence of one         *)
(* character strings. An Option is a sequence of length at most one.       *)
(***************************************************************************)
EXTENDS Integers, Sequences, FiniteSets, TLC

\* ---------------------------------------------------------------- bounds
MaxDays == 2
MaxExprs == 2
MaxSteps == 3

None == <<>>
Some(x) == <<x>>

\* ------------------------------------------- the external cron engine
\* A cron expression is written as a non-empty run of slot digits: "12"
\* fires every day at slot 1 and at slot 2.
DigitChars == <<"0", "1", "2">>

IsDigit(c) == \E i \in 1..Len(DigitChars) : DigitChars[i] = c

SlotsPerDay == Len(DigitChars)

MaxTime == MaxDays * SlotsPerDay - 1

Instants == 0..MaxTime

DigitValue(c) == (CHOOSE i \in 1..Len(DigitChars) : DigitChars[i] = c) - 1

CronValid(text) == Len(text) > 0 /\ \A i \in 1..Len(text) : IsDigit(text[i])

CronFields(text) == {DigitValue(text[i]) : i \in 1..Len(text)}

\* cron::Schedule::from_str: the parsed schedule keeps its source text
CronFromStr(text) ==
  IF CronValid(text)
  THEN [ok |-> TRUE, val |-> [source |-> text, fields |-> CronFields(text)], err |-> <<>>]
  ELSE [ok |-> FALSE, val |-> <<>>, err |-> text]

\* Display for cron::Schedule
CronToString(s) == s.source

CronMatches(s, x) == (x % SlotsPerDay) \in s.fields

SetMin(S) == CHOOSE x \in S : \A y \in S : x <= y

SetMax(S) == CHOOSE x \in S : \A y \in S : y <= x

\* s.after(t).next(): the first occurrence strictly after t
CronAfterNext(s, t) ==
  LET c == {x \in Instants : x > t /\ CronMatches(s, x)}
  IN IF c = {} THEN None ELSE Some(SetMin(c))

\* s.after(t).next_back(): the last occurrence strictly before t
CronAfterNextBack(s, t) ==
  LET c == {x \in Instants : x < t /\ CronMatches(s, x)}
  IN IF c = {} THEN None ELSE Some(SetMax(c))

\* ------------------------------------------------ iterator adaptors
\* Iterator::min over a sequence: None when empty, the first least element
RECURSIVE IterMin(_)
IterMin(xs) ==
  IF xs = <<>> THEN None
  ELSE LET rest == IterMin(Tail(xs))
       IN IF rest = None THEN Some(Head(xs))
          ELSE IF rest[1] < Head(xs) THEN rest ELSE Some(Head(xs))

\* Iterator::max over a sequence: None when empty, the last greatest element
RECURSIVE IterMax(_)
IterMax(xs) ==
  IF xs = <<>> THEN None
  ELSE LET rest == IterMax(Tail(xs))
       IN IF rest = None THEN Some(Head(xs))
          ELSE IF rest[1] >= Head(xs) THEN rest ELSE Some(Head(xs))

\* .filter_map(|s| s.after(after).next())
RECURSIVE FilterMapNext(_, _)
FilterMapNext(schedules, after) ==
  IF schedules = <<>> THEN <<>>
  ELSE LET c == CronAfterNext(Head(schedules), after)
       IN (IF c = None THEN <<>> ELSE <<c[1]>>) \o FilterMapNext(Tail(schedules), after)

\* .filter_map(|s| s.after(from).next_back())
RECURSIVE FilterMapNextBack(_, _)
FilterMapNextBack(schedules, from) ==
  IF schedules = <<>> THEN <<>>
  ELSE LET c == CronAfterNextBack(Head(schedules), from)
       IN (IF c = None THEN <<>> ELSE <<c[1]>>) \o FilterMapNextBack(Tail(schedules), from)

\* ------------------------------------------------------- Schedule
\* faulty variants of next_after: the greatest candidate; the candidates before; the
\* argument itself when there is no candidate
next_after_max(schedules, after) == IterMax(FilterMapNext(schedules, after))

next_after_back(schedules, after) == IterMin(FilterMapNextBack(schedules, after))

next_after_or_self(schedules, after) ==
  LET m == IterMin(FilterMapNext(schedules, after))
  IN IF m = None THEN Some(after) ELSE m

\* two more: the first candidate in held order; the first expression left out
next_after_first(schedules, after) ==
  LET c == FilterMapNext(schedules, after)
  IN IF c = <<>> THEN None ELSE Some(Head(c))

next_after_skip_first(schedules, after) ==
  IterMin(FilterMapNext(IF schedules = <<>> THEN <<>> ELSE Tail(schedules), after))

next_after(schedules, after) == IterMin(FilterMapNext(schedules, after))

\* faulty variant of prev_from: the least candidate
prev_from_min(schedules, from) == IterMin(FilterMapNextBack(schedules, from))

\* one more: the first candidate in held order
prev_from_first(schedules, from) ==
  LET c == FilterMapNextBack(schedules, from)
  IN IF c = <<>> THEN None ELSE Some(Head(c))

prev_from(schedules, from) == IterMax(FilterMapNextBack(schedules, from))

\* Result<Vec<_>, _> values
Ok(v) == [ok |-> TRUE, val |-> v, err |-> <<>>]

Err(e) == [ok |-> FALSE, val |-> <<>>, err |-> e]

\* faulty variant of collect: the values that parsed, the errors dropped
RECURSIVE collect_skip(_)
collect_skip(results) ==
  IF results = <<>> THEN Ok(<<>>)
  ELSE LET rest == collect_skip(Tail(results))
       IN IF Head(results).ok THEN Ok(<<Head(results).val>> \o rest.val) ELSE rest

\* .collect::<Result<Vec<_>, _>>(): the values up to the first error, or that error
RECURSIVE collect(_)
collect(results) ==
  IF results = <<>> THEN Ok(<<>>)
  ELSE IF ~Head(results).ok THEN Err(Head(results).err)
  ELSE LET rest == collect(Tail(results))
       IN IF rest.ok THEN Ok(<<Head(results).val>> \o rest.val) ELSE rest

\* faulty variant of split: the empty pieces left out
RECURSIVE split_nonempty(_, _)
split_nonempty(s, sep) ==
  IF \A i \in 1..Len(s) : s[i] # sep THEN (IF s = <<>> THEN <<>> ELSE <<s>>)
  ELSE LET k == CHOOSE i \in 1..Len(s) : s[i] = sep /\ \A j \in 1..(i - 1) : s[j] # sep
       IN (IF k = 1 THEN <<>> ELSE <<SubSeq(s, 1, k - 1)>>)
            \o split_nonempty(SubSeq(s, k + 1, Len(s)), sep)

\* str::split(char): the pieces between the separators, at least one piece
RECURSIVE split(_, _)
split(s, sep) ==
  IF \A i \in 1..Len(s) : s[i] # sep THEN <<s>>
  ELSE LET k == CHOOSE i \in 1..Len(s) : s[i] = sep /\ \A j \in 1..(i - 1) : s[j] # sep
       IN <<SubSeq(s, 1, k - 1)>> \o split(SubSeq(s, k + 1, Len(s)), sep)

\* str::trim: without the leading and the trailing whitespace
RECURSIVE trim(_)
trim(s) ==
  IF s = <<>> THEN s
  ELSE IF Head(s) = " " THEN trim(Tail(s))
  ELSE IF s[Len(s)] = " " THEN trim(SubSeq(s, 1, Len(s) - 1))
  ELSE s

\* [String]::join(sep)
RECURSIVE join(_, _)
join(strs, sep) ==
  IF strs = <<>> THEN <<>>
  ELSE IF Len(strs) = 1 THEN strs[1]
  ELSE strs[1] \o sep \o join(Tail(strs), sep)

\* impl TryFrom<Vec<String>> for Schedule
try_from(vec) == collect([i \in 1..Len(vec) |-> CronFromStr(vec[i])])

\* faulty variant of from_str: the pieces not trimmed
from_str_untrimmed(s) ==
  LET pieces == split(s, "|")
  IN collect([i \in 1..Len(pieces) |-> CronFromStr(pieces[i])])

\* impl FromStr for Schedule
from_str(s) ==
  LET pieces == split(s, "|")
  IN collect([i \in 1..Len(pieces) |-> CronFromStr(trim(pieces[i]))])

\* Schedule::new
new(schedules) == schedules

\* Schedule::to_strings
to_strings(schedules) == [i \in 1..Len(schedules) |-> CronToString(schedules[i])]

\* faulty variant of to_string: the separator without its spaces
to_string_tight(schedules) == join(to_strings(schedules), <<"|">>)

\* impl ToString for Schedule
to_string(schedules) == join(to_strings(schedules), <<" ", "|", " ">>)

\* faulty variants of ScheduleIterator::next: the position not advanced on a result;
\* the position kept when there is no result
ScheduleIterator_next_stale(schedules, previous_datetime) ==
  IF previous_datetime = None
  THEN [ret |-> None, previous_datetime |-> None]
  ELSE LET next == next_after(schedules, previous_datetime[1])
       IN IF next # None
          THEN [ret |-> next, previous_datetime |-> previous_datetime]
          ELSE [ret |-> None, previous_datetime |-> None]

ScheduleIterator_next_keep(schedules, previous_datetime) ==
  IF previous_datetime = None
  THEN [ret |-> None, previous_datetime |-> None]
  ELSE LET next == next_after(schedules, previous_datetime[1])
       IN IF next # None
          THEN [ret |-> next, previous_datetime |-> next]
          ELSE [ret |-> None, previous_datetime |-> previous_datetime]

\* ScheduleIterator::next: the value returned and the position left behind
ScheduleIterator_next(schedules, previous_datetime) ==
  IF previous_datetime = None
  THEN [ret |-> None, previous_datetime |-> None]
  ELSE LET next == next_after(schedules, previous_datetime[1])
       IN IF next # None
          THEN [ret |-> next, previous_datetime |-> next]
          ELSE [ret |-> None, previous_datetime |-> None]

\* faulty variants of ScheduleIterator::next_back, the same two
ScheduleIterator_next_back_stale(schedules, previous_datetime) ==
  IF previous_datetime = None
  THEN [ret |-> None, previous_datetime |-> None]
  ELSE LET prev == prev_from(schedules, previous_datetime[1])
       IN IF prev # None
          THEN [ret |-> prev, previous_datetime |-> previous_datetime]
          ELSE [ret |-> None, previous_datetime |-> None]

ScheduleIterator_next_back_keep(schedules, previous_datetime) ==
  IF previous_datetime = None
  THEN [ret |-> None, previous_datetime |-> None]
  ELSE LET prev == prev_from(schedules, previous_datetime[1])
       IN IF prev # None
          THEN [ret |-> prev, previous_datetime |-> prev]
          ELSE [ret |-> None, previous_datetime |-> previous_datetime]

\* ScheduleIterator::next_back
ScheduleIterator_next_back(schedules, previous_datetime) ==
  IF previous_datetime = None
  THEN [ret |-> None, previous_datetime |-> None]
  ELSE LET prev == prev_from(schedules, previous_datetime[1])
       IN IF prev # None
          THEN [ret |-> prev, previous_datetime |-> prev]
          ELSE [ret |-> None, previous_datetime |-> None]

\* faulty variant of OwnedScheduleIterator::next: the position not advanced
OwnedScheduleIterator_next_stale(schedules, previous_datetime) ==
  IF previous_datetime = None
  THEN [ret |-> None, previous_datetime |-> None]
  ELSE LET next == next_after(schedules, previous_datetime[1])
       IN IF next # None
          THEN [ret |-> next, previous_datetime |-> previous_datetime]
          ELSE [ret |-> None, previous_datetime |-> None]

\* OwnedScheduleIterator::next
OwnedScheduleIterator_next(schedules, previous_datetime) ==
  IF previous_datetime = None
  THEN [ret |-> None, previous_datetime |-> None]
  ELSE LET next == next_after(schedules, previous_datetime[1])
       IN IF next # None
          THEN [ret |-> next, previous_datetime |-> next]
          ELSE [ret |-> None, previous_datetime |-> None]

\* faulty variant of OwnedScheduleIterator::next_back: the position kept when
\* there is no result
OwnedScheduleIterator_next_back_keep(schedules, previous_datetime) ==
  IF previous_datetime = None
  THEN [ret |-> None, previous_datetime |-> None]
  ELSE LET prev == prev_from(schedules, previous_datetime[1])
       IN IF prev # None
          THEN [ret |-> prev, previous_datetime |-> prev]
          ELSE [ret |-> None, previous_datetime |-> previous_datetime]

\* OwnedScheduleIterator::next_back
OwnedScheduleIterator_next_back(schedules, previous_datetime) ==
  IF previous_datetime = None
  THEN [ret |-> None, previous_datetime |-> None]
  ELSE LET prev == prev_from(schedules, previous_datetime[1])
       IN IF prev # None
          THEN [ret |-> prev, previous_datetime |-> prev]
          ELSE [ret |-> None, previous_datetime |-> None]

\* ------------------------------------------------------ input sets
SeqsUpTo(S, n) == UNION {[1..k -> S] : k \in 0..n}

Pads == {<<>>, <<" ">>}

Cores == {<<>>, <<"x">>, <<"1">>, <<"2">>, <<"1", "2">>}

PieceTexts == {l \o c \o r : l \in Pads, c \in Cores, r \in Pads}

VecInputs == SeqsUpTo(PieceTexts, MaxExprs)

StrInputs == {join(ps, <<"|">>) : ps \in VecInputs}

ExprPool == {CronFromStr(c).val : c \in {t \in Cores : CronValid(t)}}

NewInputs == SeqsUpTo(ExprPool, MaxExprs)

\* ----------------------------------------------------------- state
VARIABLES
  input,      \* the constructor call that made the Schedule: kind, argument
  result,     \* what the constructor returned: Ok(schedules) or Err(error)
  call,       \* the last call on the Schedule and what it returned
  it,         \* the ScheduleIterator borrowing the Schedule
  owned,      \* the OwnedScheduleIterator and its own copy of the Schedule
  it_log,     \* history: where `it` started, the steps taken, their results
  owned_log   \* history: the same for `owned`

vars == <<input, result, call, it, owned, it_log, owned_log>>

NoInput == [kind |-> "none", arg |-> <<>>, rendered |-> FALSE]

NoCall == [op |-> "none", arg |-> <<>>, ret |-> <<>>]

NoIt == [live |-> FALSE, previous_datetime |-> None]

NoOwned == [live |-> FALSE, schedule |-> <<>>, previous_datetime |-> None]

NoLog == [start |-> None, trace |-> <<>>]

Constructed == input.kind # "none" /\ result.ok

Init ==
  /\ input = NoInput
  /\ result = Err(<<>>)
  /\ call = NoCall
  /\ it = NoIt
  /\ owned = NoOwned
  /\ it_log = NoLog
  /\ owned_log = NoLog

\* ----------------------------------------------- construction actions
TryFromVec ==
  /\ input.kind = "none"
  /\ \E vec \in VecInputs :
       /\ input' = [kind |-> "vec", arg |-> vec, rendered |-> FALSE]
       /\ result' = try_from(vec)
  /\ UNCHANGED <<call, it, owned, it_log, owned_log>>

FromStr ==
  /\ input.kind = "none"
  /\ \E s \in StrInputs :
       /\ input' = [kind |-> "str", arg |-> s, rendered |-> FALSE]
       /\ result' = from_str(s)
  /\ UNCHANGED <<call, it, owned, it_log, owned_log>>

\* impl TryFrom<&str> for Schedule: Self::from_str(value)
TryFromStr ==
  /\ input.kind = "none"
  /\ \E value \in StrInputs :
       /\ input' = [kind |-> "try_str", arg |-> value, rendered |-> FALSE]
       /\ result' = from_str(value)
  /\ UNCHANGED <<call, it, owned, it_log, owned_log>>

New ==
  /\ input.kind = "none"
  /\ \E schedules \in NewInputs :
       /\ input' = [kind |-> "new", arg |-> schedules, rendered |-> FALSE]
       /\ result' = Ok(new(schedules))
  /\ UNCHANGED <<call, it, owned, it_log, owned_log>>

\* from_str applied to the text a to_string call has just returned
Reparse ==
  /\ Constructed
  /\ call.op = "to_string"
  /\ input' = [kind |-> "str", arg |-> call.ret, rendered |-> TRUE]
  /\ result' = from_str(call.ret)
  /\ call' = NoCall
  /\ UNCHANGED <<it, owned, it_log, owned_log>>

\* ------------------------------------------ calls on a built Schedule
CallToString ==
  /\ Constructed
  /\ call' = [op |-> "to_string", arg |-> <<>>, ret |-> to_string(result.val)]
  /\ UNCHANGED <<input, result, it, owned, it_log, owned_log>>

\* faulty variant of CallToStrings: the expressions are moved out of the Schedule
CallToStrings_drain ==
  /\ Constructed
  /\ call' = [op |-> "to_strings", arg |-> <<>>, ret |-> to_strings(result.val)]
  /\ result' = Ok(<<>>)
  /\ UNCHANGED <<input, it, owned, it_log, owned_log>>

CallToStrings ==
  /\ Constructed
  /\ call' = [op |-> "to_strings", arg |-> <<>>, ret |-> to_strings(result.val)]
  /\ UNCHANGED <<input, result, it, owned, it_log, owned_log>>

CallNextAfter ==
  /\ Constructed
  /\ \E after \in Instants :
       call' = [op |-> "next_after", arg |-> after, ret |-> next_after(result.val, after)]
  /\ UNCHANGED <<input, result, it, owned, it_log, owned_log>>

CallPrevFrom ==
  /\ Constructed
  /\ \E from \in Instants :
       call' = [op |-> "prev_from", arg |-> from, ret |-> prev_from(result.val, from)]
  /\ UNCHANGED <<input, result, it, owned, it_log, owned_log>>

Next ==
  \/ TryFromVec
  \/ FromStr
  \/ TryFromStr
  \/ New
  \/ Reparse
  \/ CallToString
  \/ CallToStrings
  \/ CallNextAfter
  \/ CallPrevFrom

Spec == Init /\ [][Next]_vars

\* ------------------------------------------------- iterator actions
TotalSteps == Len(it_log.trace) + Len(owned_log.trace)

InitIter ==
  /\ \E schedules \in NewInputs :
       /\ input = [kind |-> "new", arg |-> schedules, rendered |-> FALSE]
       /\ result = Ok(new(schedules))
  /\ call = NoCall
  /\ it = NoIt
  /\ owned = NoOwned
  /\ it_log = NoLog
  /\ owned_log = NoLog

\* Schedule::after: ScheduleIterator::new(self, after)
After ==
  /\ Constructed
  /\ ~it.live
  /\ \E after \in Instants :
       /\ it' = [live |-> TRUE, previous_datetime |-> Some(after)]
       /\ it_log' = [start |-> Some(after), trace |-> <<>>]
  /\ UNCHANGED <<input, result, call, owned, owned_log>>

\* Schedule::upcoming: self.after(now)
Upcoming ==
  /\ Constructed
  /\ ~it.live
  /\ \E now \in Instants :
       /\ it' = [live |-> TRUE, previous_datetime |-> Some(now)]
       /\ it_log' = [start |-> Some(now), trace |-> <<>>]
  /\ UNCHANGED <<input, result, call, owned, owned_log>>

\* Schedule::after_owned: OwnedScheduleIterator::new(self.clone(), after)
AfterOwned ==
  /\ Constructed
  /\ ~owned.live
  /\ \E after \in Instants :
       /\ owned' = [live |-> TRUE, schedule |-> result.val,
                    previous_datetime |-> Some(after)]
       /\ owned_log' = [start |-> Some(after), trace |-> <<>>]
  /\ UNCHANGED <<input, result, call, it, it_log>>

\* Schedule::upcoming_owned: self.after_owned(now)
UpcomingOwned ==
  /\ Constructed
  /\ ~owned.live
  /\ \E now \in Instants :
       /\ owned' = [live |-> TRUE, schedule |-> result.val,
                    previous_datetime |-> Some(now)]
       /\ owned_log' = [start |-> Some(now), trace |-> <<>>]
  /\ UNCHANGED <<input, result, call, it, it_log>>

Step(op, pos, ret) == [op |-> op, pos |-> pos, ret |-> ret]

\* faulty variant of ItNext: the two iterators share one position
ItNext_aliased ==
  /\ it.live
  /\ TotalSteps < MaxSteps
  /\ LET r == ScheduleIterator_next(result.val, it.previous_datetime)
     IN /\ it' = [it EXCEPT !.previous_datetime = r.previous_datetime]
        /\ owned' = [owned EXCEPT !.previous_datetime =
                       IF owned.live THEN r.previous_datetime ELSE @]
        /\ it_log' = [it_log EXCEPT !.trace =
                        Append(@, Step("next", it.previous_datetime, r.ret))]
  /\ UNCHANGED <<input, result, call, owned_log>>

ItNext ==
  /\ it.live
  /\ TotalSteps < MaxSteps
  /\ LET r == ScheduleIterator_next(result.val, it.previous_datetime)
     IN /\ it' = [it EXCEPT !.previous_datetime = r.previous_datetime]
        /\ it_log' = [it_log EXCEPT !.trace =
                        Append(@, Step("next", it.previous_datetime, r.ret))]
  /\ UNCHANGED <<input, result, call, owned, owned_log>>

ItNextBack ==
  /\ it.live
  /\ TotalSteps < MaxSteps
  /\ LET r == ScheduleIterator_next_back(result.val, it.previous_datetime)
     IN /\ it' = [it EXCEPT !.previous_datetime = r.previous_datetime]
        /\ it_log' = [it_log EXCEPT !.trace =
                        Append(@, Step("next_back", it.previous_datetime, r.ret))]
  /\ UNCHANGED <<input, result, call, owned, owned_log>>

OwnedNext ==
  /\ owned.live
  /\ TotalSteps < MaxSteps
  /\ LET r == OwnedScheduleIterator_next(owned.schedule, owned.previous_datetime)
     IN /\ owned' = [owned EXCEPT !.previous_datetime = r.previous_datetime]
        /\ owned_log' = [owned_log EXCEPT !.trace =
                           Append(@, Step("next", owned.previous_datetime, r.ret))]
  /\ UNCHANGED <<input, result, call, it, it_log>>

OwnedNextBack ==
  /\ owned.live
  /\ TotalSteps < MaxSteps
  /\ LET r == OwnedScheduleIterator_next_back(owned.schedule, owned.previous_datetime)
     IN /\ owned' = [owned EXCEPT !.previous_datetime = r.previous_datetime]
        /\ owned_log' = [owned_log EXCEPT !.trace =
                           Append(@, Step("next_back", owned.previous_datetime, r.ret))]
  /\ UNCHANGED <<input, result, call, it, it_log>>

NextIter ==
  \/ After
  \/ Upcoming
  \/ AfterOwned
  \/ UpcomingOwned
  \/ ItNext
  \/ ItNextBack
  \/ OwnedNext
  \/ OwnedNextBack

SpecIter == InitIter /\ [][NextIter]_vars

\* ------------------------------------------- one iterator on its own
\* Only one of the two iterators is made, and it takes all the steps.
SoloAfter == ~owned.live /\ After

SoloUpcoming == ~owned.live /\ Upcoming

SoloAfterOwned == ~it.live /\ AfterOwned

SoloUpcomingOwned == ~it.live /\ UpcomingOwned

NextSolo ==
  \/ SoloAfter
  \/ SoloUpcoming
  \/ SoloAfterOwned
  \/ SoloUpcomingOwned
  \/ ItNext
  \/ ItNextBack
  \/ OwnedNext
  \/ OwnedNextBack

SpecSolo == InitIter /\ [][NextSolo]_vars

\* ------------------------------------------------------ properties
\* The two iterators as seen by the properties: the schedule each reads, its
\* history and its position.
Cursors ==
  { [schedule |-> result.val, log |-> it_log, pos |-> it.previous_datetime,
     live |-> it.live],
    [schedule |-> owned.schedule, log |-> owned_log,
     pos |-> owned.previous_datetime, live |-> owned.live] }

\* The instants the held expressions give one by one, each asked on its own
EachNext(S, t) ==
  {CronAfterNext(S[i], t)[1] : i \in {j \in 1..Len(S) : CronAfterNext(S[j], t) # None}}

EachPrev(S, t) ==
  {CronAfterNextBack(S[i], t)[1] :
     i \in {j \in 1..Len(S) : CronAfterNextBack(S[j], t) # None}}

\* C1: next_after(t) is the least of the held expressions' own next
\* occurrences strictly after t, an expression without one counting as
\* +infinity, and it is empty exactly when every expression has none.
C1_NextAfterIsMinimum ==
  (Constructed /\ call.op = "next_after") =>
    LET each == EachNext(result.val, call.arg)
    IN /\ (call.ret = None) <=> (each = {})
       /\ call.ret # None =>
            /\ call.ret[1] \in each
            /\ \A x \in each : call.ret[1] <= x

\* C1 witness: two expressions with different next occurrences, the least
\* one given by the second expression
C1_Witness ==
  /\ Constructed
  /\ call.op = "next_after"
  /\ Len(result.val) = 2
  /\ CronAfterNext(result.val[1], call.arg) # None
  /\ CronAfterNext(result.val[2], call.arg) # None
  /\ CronAfterNext(result.val[2], call.arg)[1] < CronAfterNext(result.val[1], call.arg)[1]
  /\ call.ret = CronAfterNext(result.val[2], call.arg)

\* C2: prev_from(t) is the greatest of the held expressions' own previous
\* occurrences strictly before t, an expression without one counting as
\* -infinity, and it is empty exactly when every expression has none.
C2_PrevFromIsMaximum ==
  (Constructed /\ call.op = "prev_from") =>
    LET each == EachPrev(result.val, call.arg)
    IN /\ (call.ret = None) <=> (each = {})
       /\ call.ret # None =>
            /\ call.ret[1] \in each
            /\ \A x \in each : x <= call.ret[1]

\* C2 witness: two expressions with different previous occurrences, the
\* greatest one given by the first expression
C2_Witness ==
  /\ Constructed
  /\ call.op = "prev_from"
  /\ Len(result.val) = 2
  /\ CronAfterNextBack(result.val[1], call.arg) # None
  /\ CronAfterNextBack(result.val[2], call.arg) # None
  /\ CronAfterNextBack(result.val[2], call.arg)[1]
       < CronAfterNextBack(result.val[1], call.arg)[1]
  /\ call.ret = CronAfterNextBack(result.val[1], call.arg)

From(c, i) == IF i = 1 THEN c.log.start[1] ELSE c.log.trace[i - 1].ret[1]

AllYield(tr, op) == \A i \in 1..Len(tr) : tr[i].op = op /\ tr[i].ret # None

\* C4: a cursor stepped forward only, every step yielding, gives a strictly
\* increasing sequence whose first element is next_after(start) and whose
\* every later element is next_after of the element before it.
C4_ForwardSequence ==
  \A c \in Cursors :
    AllYield(c.log.trace, "next") =>
      \A i \in 1..Len(c.log.trace) :
        /\ c.log.trace[i].ret = next_after(c.schedule, From(c, i))
        /\ i > 1 => c.log.trace[i - 1].ret[1] < c.log.trace[i].ret[1]

\* C4 witness: three forward steps of one cursor, all yielding
C4_Witness ==
  \E c \in Cursors : Len(c.log.trace) >= 3 /\ AllYield(c.log.trace, "next")

\* C5: once a forward step taken from a position has returned empty, every
\* later forward step of the same cursor returns empty.
C5_ForwardStaysExhausted ==
  \A c \in Cursors : \A i \in 1..Len(c.log.trace) : \A j \in 1..Len(c.log.trace) :
    (/\ i < j
     /\ c.log.trace[i].op = "next"
     /\ c.log.trace[i].pos # None
     /\ c.log.trace[i].ret = None
     /\ c.log.trace[j].op = "next") => c.log.trace[j].ret = None

\* C5 witness: a forward step returns empty, the cursor is then stepped
\* backward and forward again, and the schedule has occurrences the last
\* forward step could have resumed with
C5_Witness ==
  \E c \in Cursors :
    /\ Len(c.log.trace) = 3
    /\ c.log.trace[1].op = "next" /\ c.log.trace[1].pos # None
    /\ c.log.trace[1].ret = None
    /\ c.log.trace[2].op = "next_back"
    /\ c.log.trace[3].op = "next"
    /\ \E t \in Instants : next_after(c.schedule, t) # None

\* C6 as claimed: a step that returns empty leaves the other direction
\* usable, so the opposite step taken right after it yields what the merge
\* query gives from the position the empty step started from.
C6_PerDirectionExhaustion ==
  \A c \in Cursors : \A i \in 1..(Len(c.log.trace) - 1) :
    LET e == c.log.trace[i]
        f == c.log.trace[i + 1]
    IN (e.pos # None /\ e.ret = None /\ f.op # e.op) =>
         f.ret = (IF f.op = "next" THEN next_after(c.schedule, e.pos[1])
                                   ELSE prev_from(c.schedule, e.pos[1]))

\* C6 amended: exhaustion is shared by the two directions. Once a step of a
\* cursor, forward or backward, has returned empty, the position is empty
\* and every later step of that cursor, in either direction, returns empty.
C6_SharedExhaustion ==
  \A c \in Cursors :
    /\ \A i \in 1..Len(c.log.trace) : \A j \in 1..Len(c.log.trace) :
         (i < j /\ c.log.trace[i].ret = None) =>
           (c.log.trace[j].pos = None /\ c.log.trace[j].ret = None)
    /\ (Len(c.log.trace) > 0 /\ c.log.trace[Len(c.log.trace)].ret = None) =>
         c.pos = None

\* C6 witness: a forward step returns empty from a position that has
\* occurrences before it, and the backward step after it returns empty
C6_Witness ==
  \E c \in Cursors :
    /\ Len(c.log.trace) >= 2
    /\ c.log.trace[1].op = "next" /\ c.log.trace[1].pos # None
    /\ c.log.trace[1].ret = None
    /\ prev_from(c.schedule, c.log.trace[1].pos[1]) # None
    /\ c.log.trace[2].op = "next_back" /\ c.log.trace[2].ret = None

BackwardOnly(tr) == \A i \in 1..Len(tr) : tr[i].op = "next_back"

\* C7: a cursor stepped backward only gives, while its steps yield, a
\* strictly decreasing sequence whose first element is prev_from(start) and
\* whose every later element is prev_from of the element before it; its
\* first empty step is the first one where prev_from of the position is
\* empty, and after it the position is empty.
C7_BackwardSequence ==
  \A c \in Cursors :
    BackwardOnly(c.log.trace) =>
      /\ \A i \in 1..Len(c.log.trace) :
           (\A k \in 1..(i - 1) : c.log.trace[k].ret # None) =>
             /\ c.log.trace[i].pos = Some(From(c, i))
             /\ c.log.trace[i].ret = prev_from(c.schedule, From(c, i))
             /\ (i > 1 /\ c.log.trace[i].ret # None) =>
                  c.log.trace[i].ret[1] < c.log.trace[i - 1].ret[1]
      /\ (Len(c.log.trace) > 0 /\ c.log.trace[Len(c.log.trace)].ret = None) =>
           c.pos = None

\* C7 witness: two backward steps that yield and a third that returns empty
C7_Witness ==
  \E c \in Cursors :
    /\ Len(c.log.trace) = 3
    /\ BackwardOnly(c.log.trace)
    /\ c.log.trace[1].ret # None
    /\ c.log.trace[2].ret # None
    /\ c.log.trace[3].ret = None
    /\ c.pos = None

\* C8: a Schedule holding no expression has no occurrence: next_after and
\* prev_from are empty at every instant and every step of every cursor over
\* it returns empty.
C8_EmptyScheduleIsSilent ==
  /\ (Constructed /\ result.val = <<>>) =>
       \A t \in Instants :
         next_after(result.val, t) = None /\ prev_from(result.val, t) = None
  /\ \A c \in Cursors :
       c.schedule = <<>> => \A i \in 1..Len(c.log.trace) : c.log.trace[i].ret = None

\* C8 witness: both cursors over the empty Schedule, stepped forward and
\* backward
C8_Witness ==
  /\ Constructed /\ result.val = <<>>
  /\ it.live /\ owned.live /\ owned.schedule = <<>>
  /\ Len(it_log.trace) >= 1 /\ it_log.trace[1].op = "next"
  /\ Len(owned_log.trace) >= 1 /\ owned_log.trace[1].op = "next_back"

\* The texts a constructor hands to the expression parser, in input order
ParsedTexts ==
  IF input.kind = "vec" THEN input.arg
  ELSE LET pieces == split(input.arg, "|")
       IN [i \in 1..Len(pieces) |-> trim(pieces[i])]

\* C9: construction from text is all or nothing: when every text parses the
\* result holds every parsed expression in input order, and otherwise it is
\* the parse error of the first text that does not parse and no Schedule.
C9_AllOrNothing ==
  input.kind \in {"vec", "str", "try_str"} =>
    LET texts == ParsedTexts
        bad == {i \in 1..Len(texts) : ~CronValid(texts[i])}
    IN IF bad = {}
       THEN /\ result.ok
            /\ Len(result.val) = Len(texts)
            /\ \A i \in 1..Len(texts) : result.val[i] = CronFromStr(texts[i]).val
       ELSE /\ ~result.ok
            /\ result.val = <<>>
            /\ result.err = CronFromStr(texts[SetMin(bad)]).err

\* C9 witness: a list of a valid text and an invalid one, refused
C9_Witness ==
  /\ input.kind = "vec"
  /\ Len(input.arg) = 2
  /\ CronValid(input.arg[1])
  /\ ~CronValid(input.arg[2])
  /\ ~result.ok

\* C10: parsing the text to_string returned succeeds and gives a Schedule
\* whose to_string is that same text.
C10_RoundTrip ==
  (input.kind = "str" /\ input.rendered) =>
    (result.ok /\ to_string(result.val) = input.arg)

\* The places of the separators in a text, and the n-th of them
PipePositions(s) == {i \in 1..Len(s) : s[i] = "|"}

NthPipe(s, n) ==
  CHOOSE x \in PipePositions(s) : Cardinality({y \in PipePositions(s) : y < x}) = n - 1

\* The k-th piece of a text: what stands between separator k-1 and separator k
PieceAt(s, k) ==
  LET lo == IF k = 1 THEN 0 ELSE NthPipe(s, k - 1)
      hi == IF k = Cardinality(PipePositions(s)) + 1 THEN Len(s) + 1 ELSE NthPipe(s, k)
  IN SubSeq(s, lo + 1, hi - 1)

\* A text from its first to its last character that is not whitespace
Stripped(p) ==
  LET ns == {i \in 1..Len(p) : p[i] # " "}
  IN IF ns = {} THEN <<>> ELSE SubSeq(p, SetMin(ns), SetMax(ns))

TrimmedPieces(s) ==
  [k \in 1..(Cardinality(PipePositions(s)) + 1) |-> Stripped(PieceAt(s, k))]

\* C11: constructing from one string gives what constructing from the list
\* of its pieces gives, the pieces being the parts between every two "|"
\* with the surrounding whitespace removed: the same expressions in the
\* same order, or the same parse error.
C11_StringAsListOfPieces ==
  input.kind \in {"str", "try_str"} =>
    LET r == try_from(TrimmedPieces(input.arg))
    IN /\ result.ok = r.ok
       /\ result.val = r.val
       /\ result.err = r.err

\* C11 witness: a string of two padded pieces that parses
C11_Witness ==
  /\ input.kind = "str"
  /\ result.ok
  /\ Len(result.val) = 2
  /\ Head(input.arg) = " "
  /\ input.arg[Len(input.arg)] = " "
  /\ Len(input.arg) > Len(to_string(result.val))

\* The steps of a history, without their positions and results
Ops(tr) == [i \in 1..Len(tr) |-> tr[i].op]

\* An OwnedScheduleIterator over S at position pos driven through ops on
\* its own: the steps it records and the position it ends at
RECURSIVE OwnedRun(_, _, _)
OwnedRun(S, pos, ops) ==
  IF ops = <<>> THEN [trace |-> <<>>, pos |-> pos]
  ELSE LET r == IF Head(ops) = "next"
                THEN OwnedScheduleIterator_next(S, pos)
                ELSE OwnedScheduleIterator_next_back(S, pos)
           rest == OwnedRun(S, r.previous_datetime, Tail(ops))
       IN [trace |-> <<Step(Head(ops), pos, r.ret)>> \o rest.trace, pos |-> rest.pos]

\* The same for a ScheduleIterator
RECURSIVE BorrowedRun(_, _, _)
BorrowedRun(S, pos, ops) ==
  IF ops = <<>> THEN [trace |-> <<>>, pos |-> pos]
  ELSE LET r == IF Head(ops) = "next"
                THEN ScheduleIterator_next(S, pos)
                ELSE ScheduleIterator_next_back(S, pos)
           rest == BorrowedRun(S, r.previous_datetime, Tail(ops))
       IN [trace |-> <<Step(Head(ops), pos, r.ret)>> \o rest.trace, pos |-> rest.pos]

\* C12: the two iterators traverse alike. What the ScheduleIterator has
\* returned and where it stands is what an OwnedScheduleIterator over the
\* same Schedule gives from the same start under the same steps, result by
\* result and position by position, and the other way round.
C12_SameTraversal ==
  /\ it.live =>
       LET o == OwnedRun(result.val, it_log.start, Ops(it_log.trace))
       IN o.trace = it_log.trace /\ o.pos = it.previous_datetime
  /\ owned.live =>
       LET b == BorrowedRun(owned.schedule, owned_log.start, Ops(owned_log.trace))
       IN b.trace = owned_log.trace /\ b.pos = owned.previous_datetime

\* C12 witness: an OwnedScheduleIterator stepped forward, backward and
\* forward again, every step yielding
C12_Witness ==
  /\ owned.live
  /\ Len(owned_log.trace) = 3
  /\ owned_log.trace[1].op = "next" /\ owned_log.trace[1].ret # None
  /\ owned_log.trace[2].op = "next_back" /\ owned_log.trace[2].ret # None
  /\ owned_log.trace[3].op = "next" /\ owned_log.trace[3].ret # None

\* The sequences holding the expressions of S in any order
Perms(S) ==
  {[i \in 1..Len(S) |-> S[p[i]]] :
     p \in {q \in [1..Len(S) -> 1..Len(S)] :
              \A i \in 1..Len(S) : \A j \in 1..Len(S) : i # j => q[i] # q[j]}}

\* C13: the order of the held expressions does not matter to the merge. A
\* Schedule holding the same expressions in any other order gives the same
\* next_after and prev_from at the instant a cursor stands on, and a cursor
\* over it gives the same results from the same start under the same steps.
C13_OrderIndependent ==
  /\ \A c \in Cursors : \A P \in Perms(c.schedule) :
       c.pos # None =>
         /\ next_after(P, c.pos[1]) = next_after(c.schedule, c.pos[1])
         /\ prev_from(P, c.pos[1]) = prev_from(c.schedule, c.pos[1])
  /\ it.live =>
       \A P \in Perms(result.val) :
         BorrowedRun(P, it_log.start, Ops(it_log.trace)).trace = it_log.trace
  /\ owned.live =>
       \A P \in Perms(owned.schedule) :
         OwnedRun(P, owned_log.start, Ops(owned_log.trace)).trace = owned_log.trace

\* C13 witness: two expressions with different occurrences, a cursor that
\* has yielded twice
C13_Witness ==
  /\ Len(result.val) = 2
  /\ result.val[1].fields # result.val[2].fields
  /\ it.live
  /\ Len(it_log.trace) >= 2
  /\ it_log.trace[1].ret # None
  /\ it_log.trace[2].ret # None

\* C14: the cursors over one Schedule are independent. However the steps
\* of the two are interleaved, each has returned what it returns when it is
\* stepped alone from its start, and stands where it then stands; the
\* Schedule the owning one holds is a copy equal to the original.
C14_IndependentCursors ==
  /\ it.live =>
       LET alone == BorrowedRun(result.val, it_log.start, Ops(it_log.trace))
       IN alone.trace = it_log.trace /\ alone.pos = it.previous_datetime
  /\ owned.live =>
       /\ owned.schedule = result.val
       /\ LET alone == OwnedRun(owned.schedule, owned_log.start, Ops(owned_log.trace))
          IN alone.trace = owned_log.trace /\ alone.pos = owned.previous_datetime

\* C14 witness: two cursors from different starts, both stepped, both
\* yielding, at different positions
C14_Witness ==
  /\ it.live /\ owned.live
  /\ it_log.start # owned_log.start
  /\ Len(it_log.trace) >= 1 /\ Len(owned_log.trace) >= 1
  /\ Len(it_log.trace) + Len(owned_log.trace) = 3
  /\ it.previous_datetime # None
  /\ owned.previous_datetime # None
  /\ it.previous_datetime # owned.previous_datetime

\* --------------------------------- queries and iterators together
\* The Schedule of "1" and "2": every day at slot 1 and every day at slot 2
NineAndFive == <<CronFromStr(<<"1">>).val, CronFromStr(<<"2">>).val>>

FrameInputs == {NineAndFive}

InitFrame ==
  /\ \E schedules \in FrameInputs :
       /\ input = [kind |-> "new", arg |-> schedules, rendered |-> FALSE]
       /\ result = Ok(new(schedules))
  /\ call = NoCall
  /\ it = NoIt
  /\ owned = NoOwned
  /\ it_log = NoLog
  /\ owned_log = NoLog

NextFrame ==
  \/ CallToString
  \/ CallToStrings
  \/ CallNextAfter
  \/ CallPrevFrom
  \/ After
  \/ Upcoming
  \/ AfterOwned
  \/ UpcomingOwned
  \/ ItNext
  \/ ItNextBack
  \/ OwnedNext
  \/ OwnedNextBack

SpecFrame == InitFrame /\ [][NextFrame]_vars

\* What a transition did, read off the two states
CallSame ==
  /\ call'.op = call.op
  /\ call.op \in {"next_after", "prev_from"} => call'.arg = call.arg

StepOnIt == Len(it_log'.trace) = Len(it_log.trace) + 1

StepOnOwned == Len(owned_log'.trace) = Len(owned_log.trace) + 1

\* C15: queries, serialization and traversal leave the Schedule alone. No
\* call of next_after, prev_from, to_string or to_strings and no step of an
\* iterator changes the held expressions, of the Schedule or of the copy
\* an owning iterator holds; a call changes no iterator, and a step changes
\* nothing but the position of the iterator stepped.
C15_Frame ==
  [][ /\ result' = result
      /\ input' = input
      /\ owned.live => (owned'.live /\ owned'.schedule = owned.schedule)
      /\ ~CallSame =>
           (it' = it /\ owned' = owned /\ it_log' = it_log /\ owned_log' = owned_log)
      /\ StepOnIt =>
           /\ CallSame
           /\ owned' = owned /\ owned_log' = owned_log
           /\ it'.live = it.live /\ it_log'.start = it_log.start
      /\ StepOnOwned =>
           /\ CallSame
           /\ it' = it /\ it_log' = it_log
           /\ owned_log'.start = owned_log.start
    ]_vars

\* C15 witness: a Schedule holding an expression after a query or a
\* serialization and a step of each iterator
C15_Witness ==
  /\ result.val # <<>>
  /\ call.op # "none"
  /\ Len(it_log.trace) >= 1
  /\ Len(owned_log.trace) >= 1
  /\ owned.schedule = result.val

\* The slots of a day read as times of day: 08:00, 09:00 and 17:00
At(day, slot) == day * SlotsPerDay + slot

\* C16: for the Schedule of a daily 09:00 and a daily 17:00 expression, on a
\* day D that has a day before it: next_after(08:00 of D) is 09:00 of D,
\* next_after(09:00 of D) is 17:00 of D, and prev_from(09:00 of D) is 17:00
\* of the day before.
C16_NineAndFive ==
  (Constructed /\ result.val = NineAndFive) =>
    \A D \in 1..(MaxDays - 1) :
      /\ (call.op = "next_after" /\ call.arg = At(D, 0)) => call.ret = Some(At(D, 1))
      /\ (call.op = "next_after" /\ call.arg = At(D, 1)) => call.ret = Some(At(D, 2))
      /\ (call.op = "prev_from" /\ call.arg = At(D, 1)) => call.ret = Some(At(D - 1, 2))

\* C16 witness: prev_from asked at 09:00 of the second day
C16_Witness ==
  /\ Constructed
  /\ result.val = NineAndFive
  /\ call.op = "prev_from"
  /\ call.arg = At(1, 1)
  /\ call.ret = Some(At(0, 2))

\* Where string i starts in the joined text: after the strings before it
\* and a separator of three characters behind each of them
RECURSIVE Offset(_, _)
Offset(strs, i) == IF i = 1 THEN 0 ELSE Offset(strs, i - 1) + Len(strs[i - 1]) + 3

\* text is the strings in order with " | " between every two of them
JoinedAs(text, strs) ==
  IF strs = <<>> THEN text = <<>>
  ELSE /\ Len(text) = Offset(strs, Len(strs)) + Len(strs[Len(strs)])
       /\ \A i \in 1..Len(strs) :
            SubSeq(text, Offset(strs, i) + 1, Offset(strs, i) + Len(strs[i])) = strs[i]
       /\ \A i \in 1..(Len(strs) - 1) :
            SubSeq(text, Offset(strs, i) + Len(strs[i]) + 1,
                   Offset(strs, i) + Len(strs[i]) + 3) = <<" ", "|", " ">>

\* C17: serialization keeps the held order. to_strings returns one string
\* for each held expression, its canonical text, in held order; to_string
\* is those strings with " | " between them: the empty text for no
\* expression, the expression's own text for one.
C17_SerializationKeepsOrder ==
  Constructed =>
    /\ call.op = "to_strings" =>
         /\ Len(call.ret) = Len(result.val)
         /\ \A i \in 1..Len(result.val) : call.ret[i] = CronToString(result.val[i])
    /\ call.op = "to_string" =>
         /\ JoinedAs(call.ret, [i \in 1..Len(result.val) |-> CronToString(result.val[i])])
         /\ result.val = <<>> => call.ret = <<>>
         /\ Len(result.val) = 1 => call.ret = CronToString(result.val[1])

\* C17 witness: to_string of two different expressions
C17_Witness ==
  /\ Constructed
  /\ call.op = "to_string"
  /\ Len(result.val) = 2
  /\ result.val[1].source # result.val[2].source

\* The merged timeline after t: the instants after t at which some held
\* expression fires
Timeline(S, t) ==
  {x \in Instants : x > t /\ \E i \in 1..Len(S) : CronMatches(S[i], x)}

ForwardOnly(tr) == \A i \in 1..Len(tr) : tr[i].op = "next"

\* C18: a cursor stepped forward only enumerates the merged timeline after
\* its start. Its i-th step yields the i-th instant of the timeline in
\* increasing order, so nothing is left out and nothing comes twice, also
\* when expressions share an instant or an expression is held twice; the
\* first step that returns empty comes when the whole timeline was yielded.
C18_ForwardEnumeratesTimeline ==
  \A c \in Cursors :
    (c.live /\ ForwardOnly(c.log.trace)) =>
      LET U == Timeline(c.schedule, c.log.start[1])
      IN \A i \in 1..Len(c.log.trace) :
           (\A k \in 1..(i - 1) : c.log.trace[k].ret # None) =>
             IF c.log.trace[i].ret # None
             THEN /\ c.log.trace[i].ret[1] \in U
                  /\ Cardinality({u \in U : u < c.log.trace[i].ret[1]}) = i - 1
             ELSE Cardinality(U) = i - 1

\* C18 witness: two expressions that share an instant, three forward steps,
\* the last one returning empty after the timeline was yielded
C18_Witness ==
  \E c \in Cursors :
    /\ c.live
    /\ Len(c.schedule) = 2
    /\ c.schedule[1].fields \cap c.schedule[2].fields # {}
    /\ Len(c.log.trace) = 3
    /\ ForwardOnly(c.log.trace)
    /\ c.log.trace[1].ret # None
    /\ c.log.trace[2].ret # None
    /\ c.log.trace[3].ret = None

\* Some step among the first n of a history returned empty
EmptyWithin(tr, n) == \E k \in 1..n : tr[k].ret = None

\* C19: whatever the order of forward and backward steps on a cursor, its
\* position is empty when some step has returned empty and only then, and
\* otherwise it is the start when no step was taken and the instant the
\* last step yielded when one was; every step starts from the position the
\* step before it left, and a step that yields returns next_after (forward)
\* or prev_from (backward) of that position.
C19_PositionInvariant ==
  \A c \in Cursors :
    c.live =>
      LET tr == c.log.trace
      IN /\ (c.pos = None) <=> EmptyWithin(tr, Len(tr))
         /\ ~EmptyWithin(tr, Len(tr)) =>
              c.pos = (IF tr = <<>> THEN c.log.start ELSE tr[Len(tr)].ret)
         /\ \A i \in 1..Len(tr) :
              /\ tr[i].pos = (IF EmptyWithin(tr, i - 1) THEN None
                              ELSE IF i = 1 THEN c.log.start ELSE tr[i - 1].ret)
              /\ tr[i].ret # None =>
                   /\ tr[i].pos # None
                   /\ tr[i].ret = (IF tr[i].op = "next"
                                   THEN next_after(c.schedule, tr[i].pos[1])
                                   ELSE prev_from(c.schedule, tr[i].pos[1]))

\* C19 witness: a forward step and a backward step that yield, then a
\* backward step that returns empty
C19_Witness ==
  \E c \in Cursors :
    /\ c.live
    /\ Len(c.log.trace) = 3
    /\ c.log.trace[1].op = "next" /\ c.log.trace[1].ret # None
    /\ c.log.trace[2].op = "next_back" /\ c.log.trace[2].ret # None
    /\ c.log.trace[3].op = "next_back" /\ c.log.trace[3].ret = None
    /\ c.pos = None

\* C20: construction from one string never gives a Schedule without
\* expressions. A string with p separators that parses holds p + 1
\* expressions; a string with a piece that is empty or only whitespace (the
\* empty string, a blank string, a leading, trailing or doubled "|") is
\* refused; a Schedule without expressions comes from an empty list only.
C20_StringNeverEmptySchedule ==
  /\ input.kind \in {"str", "try_str"} =>
       /\ result.ok => Len(result.val) = Cardinality(PipePositions(input.arg)) + 1
       /\ (\E k \in 1..(Cardinality(PipePositions(input.arg)) + 1) :
             Stripped(PieceAt(input.arg, k)) = <<>>) => ~result.ok
  /\ (Constructed /\ result.val = <<>>) =>
       (input.kind \in {"vec", "new"} /\ input.arg = <<>>)

\* C20 witness: a string of a valid expression and a trailing "|", refused
C20_Witness ==
  /\ input.kind = "str"
  /\ Cardinality(PipePositions(input.arg)) = 1
  /\ input.arg[Len(input.arg)] = "|"
  /\ CronValid(Stripped(PieceAt(input.arg, 1)))
  /\ ~result.ok

====
